---- MODULE Spec2Model ----
(***************************************************************************)
(* Model of the balance-settlement engine of EvenSteven                    *)
(* (src/src/utils/balanceCalculator.ts, first module of the file):         *)
(*   calculateBalances(expenses, payments)  and  minimizeTransactions.     *)
(*                                                                         *)
(* Numbers.  A JavaScript number is an IEEE-754 binary64 value and is      *)
(* modelled as one: a sign and a magnitude in units of 2^-Scale, every     *)
(* operation rounding its exact result to 53 significant bits, to nearest, *)
(* ties to even.  The magnitude is a natural number kept as a sequence of  *)
(* digits in base Radix.  Sums, differences and products of such values    *)
(* are such values; a quotient is one when it is zero or at least          *)
(* 2^(Precision - Scale), about 2.4e-7, as every share of an amount of a   *)
(* thousandth or more among a few members is.                              *)
(*                                                                         *)
(* Strings.  A member identifier is a sequence of character codes, so the  *)
(* pair key `${a}-${b}` and key.split('-') are modelled by what they do.   *)
(*                                                                         *)
(* Map.  A JavaScript Map is a sequence of [key, val] entries in insertion *)
(* order (the order Map.prototype.forEach visits them).                    *)
(***************************************************************************)
EXTENDS Integers, Sequences, FiniteSets, TLC

\* ----------------------------------------------------------- big naturals
\* a natural number as its digits in base Radix, least significant first,
\* without leading zeros (<<>> is 0); a digit times a divisor or multiplier of
\* the source (100, a list length) stays a small integer
Radix == 2 ^ 15

RECURSIVE IntBits(_)
\* number of binary digits of n >= 0
IntBits(n) == IF n = 0 THEN 0 ELSE 1 + IntBits(n \div 2)

RadixBits == IntBits(Radix) - 1

Rest(a) == IF a = <<>> THEN <<>> ELSE Tail(a)
Digit(a) == IF a = <<>> THEN 0 ELSE a[1]

RECURSIVE BNorm(_)
BNorm(a) == IF a # <<>> /\ a[Len(a)] = 0 THEN BNorm(SubSeq(a, 1, Len(a) - 1)) ELSE a

RECURSIVE BAddC(_, _, _)
BAddC(a, b, c) ==
  IF a = <<>> /\ b = <<>> THEN (IF c = 0 THEN <<>> ELSE <<c>>)
  ELSE LET x == Digit(a) + Digit(b) + c
       IN <<x % Radix>> \o BAddC(Rest(a), Rest(b), x \div Radix)

BAdd(a, b) == BAddC(a, b, 0)

RECURSIVE BSubC(_, _, _)
\* a - b - c for a >= b + c, digits not yet normalised
BSubC(a, b, c) ==
  IF a = <<>> THEN <<>>
  ELSE LET x == a[1] - Digit(b) - c
       IN IF x < 0 THEN <<x + Radix>> \o BSubC(Tail(a), Rest(b), 1)
          ELSE <<x>> \o BSubC(Tail(a), Rest(b), 0)

BSub(a, b) == BNorm(BSubC(a, b, 0))

RECURSIVE BCmpFrom(_, _, _)
BCmpFrom(a, b, i) ==
  IF i = 0 THEN 0
  ELSE IF a[i] # b[i] THEN (IF a[i] < b[i] THEN -1 ELSE 1)
  ELSE BCmpFrom(a, b, i - 1)

\* -1, 0, 1 as a < b, a = b, a > b
BCmp(a, b) ==
  IF Len(a) # Len(b) THEN (IF Len(a) < Len(b) THEN -1 ELSE 1)
  ELSE BCmpFrom(a, b, Len(a))

RECURSIVE BMulC(_, _, _)
\* a * k + c for a small k
BMulC(a, k, c) ==
  IF a = <<>> THEN (IF c = 0 THEN <<>> ELSE <<c>>)
  ELSE LET x == a[1] * k + c
       IN <<x % Radix>> \o BMulC(Tail(a), k, x \div Radix)

BMul(a, k) == IF k = 0 THEN <<>> ELSE BMulC(a, k, 0)

RECURSIVE BDivFrom(_, _, _, _)
\* quotient digits 1..i of a \div k (least significant first) and the
\* remainder, given the remainder r carried from the digits above i
BDivFrom(a, k, i, r) ==
  IF i = 0 THEN [q |-> <<>>, r |-> r]
  ELSE LET x == r * Radix + a[i]
           low == BDivFrom(a, k, i - 1, x % k)
       IN [q |-> Append(low.q, x \div k), r |-> low.r]

\* a \div k and a % k for a small k > 0
BDiv(a, k) ==
  LET d == BDivFrom(a, k, Len(a), 0) IN [q |-> BNorm(d.q), r |-> d.r]

\* a * 2^s
BShl(a, s) ==
  IF a = <<>> THEN <<>>
  ELSE [i \in 1..(s \div RadixBits) |-> 0] \o BMul(a, 2 ^ (s % RadixBits))

\* a \div 2^s
BShr(a, s) ==
  LET whole == s \div RadixBits
      kept == IF whole >= Len(a) THEN <<>> ELSE SubSeq(a, whole + 1, Len(a))
  IN BDiv(kept, 2 ^ (s % RadixBits)).q

\* number of binary digits of a
BBits(a) == IF a = <<>> THEN 0 ELSE RadixBits * (Len(a) - 1) + IntBits(a[Len(a)])

BOdd(a) == a # <<>> /\ a[1] % 2 = 1

RECURSIVE BToInt(_)
BToInt(a) == IF a = <<>> THEN 0 ELSE a[1] + Radix * BToInt(Tail(a))

RECURSIVE BOfInt(_)
BOfInt(n) == IF n = 0 THEN <<>> ELSE <<n % Radix>> \o BOfInt(n \div Radix)

\* --------------------------------------------------------------- binary64
\* A number is [neg, mag]: the value (-1)^neg * mag / 2^Scale.
\* Precision: the 52 stored bits of the significand and the implicit one.
\* Guard: the extra bits a quotient is computed to before it is rounded.
Precision == 52 + 1
Scale == 5 * RadixBits
Guard == RadixBits

\* n (with something below it when sticky) rounded to Precision significant
\* bits, to nearest, ties to even
Round(n, sticky) ==
  IF BBits(n) <= Precision THEN n
  ELSE LET s == BBits(n) - Precision
           q == BShr(n, s)
           c == BCmp(BSub(n, BShl(q, s)), BShl(<<1>>, s - 1))
           up == c > 0 \/ (c = 0 /\ (sticky \/ BOdd(q)))
       IN BShl(IF up THEN BAdd(q, <<1>>) ELSE q, s)

Dbl(neg, mag) == [neg |-> neg /\ mag # <<>>, mag |-> mag]

\* the double nearest k / d for integers k >= 0, d > 0
Ratio(k, d) ==
  LET x == BDiv(BShl(BOfInt(k), Scale + Guard), d)
  IN Dbl(FALSE, BShr(Round(x.q, x.r # 0), Guard))

DNeg(x) == Dbl(~x.neg, x.mag)
DAbs(x) == Dbl(FALSE, x.mag)

\* x + y
DAdd(x, y) ==
  IF x.neg = y.neg THEN Dbl(x.neg, Round(BAdd(x.mag, y.mag), FALSE))
  ELSE IF BCmp(x.mag, y.mag) >= 0 THEN Dbl(x.neg, Round(BSub(x.mag, y.mag), FALSE))
  ELSE Dbl(y.neg, Round(BSub(y.mag, x.mag), FALSE))

DSub(x, y) == DAdd(x, DNeg(y))

\* x * k for a small integer k > 0
DMulInt(x, k) == Dbl(x.neg, Round(BMul(x.mag, k), FALSE))

\* x / k for a small integer k > 0
DDivInt(x, k) ==
  LET d == BDiv(BShl(x.mag, Guard), k)
  IN Dbl(x.neg, BShr(Round(d.q, d.r # 0), Guard))

\* x < y
DLess(x, y) ==
  IF x.neg # y.neg THEN x.neg
  ELSE IF x.neg THEN BCmp(x.mag, y.mag) > 0 ELSE BCmp(x.mag, y.mag) < 0

\* Math.round(x) as an integer: floor(x + 0.5) computed exactly, so a tie goes
\* toward +Infinity
MathRound(x) ==
  LET half == BShl(<<1>>, Scale - 1)
      one == BShl(<<1>>, Scale)
  IN IF ~x.neg THEN BToInt(BShr(BAdd(x.mag, half), Scale))
     ELSE IF BCmp(x.mag, half) <= 0 THEN 0
     ELSE -BToInt(BShr(BAdd(BSub(x.mag, half), BSub(one, <<1>>)), Scale))

\* the integer nearest to |x| * k, a tie away from zero
NearestIntAway(x, k) ==
  BToInt(BShr(BAdd(BMul(x.mag, k), BShl(<<1>>, Scale - 1)), Scale))

Zero == Dbl(FALSE, <<>>)

\* the larger of the two
Max(x, y) == IF DLess(x, y) THEN y ELSE x

\* Math.min(x, y)
Min(x, y) == IF DLess(y, x) THEN y ELSE x

\* Math.round(amount * 100) / 100
MathRound100(amount) ==
  LET n == MathRound(DMulInt(amount, 100))
  IN IF n < 0 THEN DNeg(Ratio(-n, 100)) ELSE Ratio(n, 100)

\* parseFloat(amount.toFixed(2)): toFixed picks the n with n / 100 nearest the
\* exact value of amount, the larger n at a tie
ToFixed2(amount) == Dbl(amount.neg, Ratio(NearestIntAway(amount, 100), 100).mag)

\* the literal 0.01 of the source
EPS == Ratio(1, 100)

\* ---------------------------------------------------------------- strings
Dash == 45

RECURSIVE StrLess(_, _)
\* s < t on JavaScript strings: lexicographic on the code units
StrLess(s, t) ==
  IF t = <<>> THEN FALSE
  ELSE IF s = <<>> THEN TRUE
  ELSE IF s[1] # t[1] THEN s[1] < t[1]
  ELSE StrLess(Tail(s), Tail(t))

\* `${a}-${b}`
Template(a, b) == a \o <<Dash>> \o b

RECURSIVE SplitFrom(_, _, _)
\* key.split('-'), scanning from position i with the current part cur
SplitFrom(s, i, cur) ==
  IF i > Len(s) THEN <<cur>>
  ELSE IF s[i] = Dash THEN <<cur>> \o SplitFrom(s, i + 1, <<>>)
  ELSE SplitFrom(s, i + 1, Append(cur, s[i]))

Split(s) == SplitFrom(s, 1, <<>>)

\* the value of an array element that does not exist
Undefined == <<-1>>

ArrayAt(arr, i) == IF i <= Len(arr) THEN arr[i] ELSE Undefined

\* -------------------------------------------------------------------- Map
MapHas(m, k) == \E i \in 1..Len(m) : m[i].key = k

\* m.get(k) || 0
MapGetOr0(m, k) ==
  IF MapHas(m, k) THEN m[CHOOSE i \in 1..Len(m) : m[i].key = k].val ELSE Zero

\* m.set(k, v): an existing key keeps its position, a new key goes last
MapSet(m, k, v) ==
  IF MapHas(m, k)
  THEN [i \in 1..Len(m) |-> IF m[i].key = k THEN [key |-> k, val |-> v] ELSE m[i]]
  ELSE Append(m, [key |-> k, val |-> v])

\* ------------------------------------------------------ calculateBalances
\* the key built from the two identifiers in the order given
KeyAsGiven(from, to) == Template(from, to)

\* const key = from < to ? `${from}-${to}` : `${to}-${from}`
PairKey(from, to) == IF StrLess(from, to) THEN Template(from, to) ELSE Template(to, from)

\* the whole amount charged to every member, not the share
WholeAmount(expense) == expense.amount

\* expense.amount / expense.sharedWith.length (Infinity when the list is
\* empty: never used, the inner forEach then has nothing to visit)
AmountPerPerson(expense) ==
  IF Len(expense.sharedWith) = 0 THEN Zero
  ELSE DDivInt(expense.amount, Len(expense.sharedWith))

\* body of expense.sharedWith.forEach for one memberId
ShareStep(netBalances, expense, memberId) ==
  IF memberId # expense.paidBy
  THEN LET from == memberId
           to == expense.paidBy
           key == PairKey(from, to)
           currentBalance == MapGetOr0(netBalances, key)
       IN IF StrLess(from, to)
          THEN MapSet(netBalances, key, DAdd(currentBalance, AmountPerPerson(expense)))
          ELSE MapSet(netBalances, key, DSub(currentBalance, AmountPerPerson(expense)))
  ELSE netBalances

RECURSIVE ExpenseStepForAll(_, _, _)
\* an empty share list taken to mean the three members of the group
ExpenseStepForAll(netBalances, expense, i) ==
  LET e == IF expense.sharedWith = <<>>
           THEN [expense EXCEPT !.sharedWith = <<<<65>>, <<66>>, <<67>>>>]
           ELSE expense
  IN IF i > Len(e.sharedWith) THEN netBalances
     ELSE ExpenseStepForAll(ShareStep(netBalances, e, e.sharedWith[i]), e, i + 1)

RECURSIVE ExpenseStep(_, _, _)
\* expense.sharedWith.forEach(...) from position i on
ExpenseStep(netBalances, expense, i) ==
  IF i > Len(expense.sharedWith) THEN netBalances
  ELSE ExpenseStep(ShareStep(netBalances, expense, expense.sharedWith[i]), expense, i + 1)

RECURSIVE ExpensesLoop(_, _, _)
\* expenses.forEach(...) from position i on
ExpensesLoop(netBalances, expenses, i) ==
  IF i > Len(expenses) THEN netBalances
  ELSE ExpensesLoop(ExpenseStep(netBalances, expenses[i], 1), expenses, i + 1)

\* body of payments.forEach for one payment
PaymentStep(netBalances, payment) ==
  LET from == payment.from
      to == payment.to
      key == PairKey(from, to)
      currentBalance == MapGetOr0(netBalances, key)
  IN IF StrLess(from, to)
     THEN MapSet(netBalances, key, DSub(currentBalance, payment.amount))
     ELSE MapSet(netBalances, key, DAdd(currentBalance, payment.amount))

RECURSIVE PaymentsLoop(_, _, _)
\* payments.forEach(...) from position i on
PaymentsLoop(netBalances, payments, i) ==
  IF i > Len(payments) THEN netBalances
  ELSE PaymentsLoop(PaymentStep(netBalances, payments[i]), payments, i + 1)

\* a map that outlives the call: it still holds an entry of an earlier one
LeftoverBalances(expenses, payments) ==
  PaymentsLoop(ExpensesLoop(<<[key |-> PairKey(<<65>>, <<66>>), val |-> EPS]>>, expenses, 1),
               payments, 1)

\* the pair-key map after both forEach loops
NetBalances(expenses, payments) ==
  PaymentsLoop(ExpensesLoop(<<>>, expenses, 1), payments, 1)

\* the filter  Math.abs(roundedAmount) >= 0.01
Emitted(roundedAmount) == ~DLess(DAbs(roundedAmount), EPS)

\* the Balance pushed for a map entry that passes the filter
BalanceOf(key, roundedAmount) ==
  LET parts == Split(key)
      id1 == ArrayAt(parts, 1)
      id2 == ArrayAt(parts, 2)
  IN IF DLess(Zero, roundedAmount)
     THEN [from |-> id1, to |-> id2, amount |-> DAbs(roundedAmount)]
     ELSE [from |-> id2, to |-> id1, amount |-> DAbs(roundedAmount)]

RECURSIVE EmitLoop(_, _)
\* netBalances.forEach(...) building result, from position i on
EmitLoop(netBalances, i) ==
  IF i > Len(netBalances) THEN <<>>
  ELSE LET roundedAmount == MathRound100(netBalances[i].val)
       IN IF Emitted(roundedAmount)
          THEN <<BalanceOf(netBalances[i].key, roundedAmount)>>
               \o EmitLoop(netBalances, i + 1)
          ELSE EmitLoop(netBalances, i + 1)

calculateBalances(expenses, payments) == EmitLoop(NetBalances(expenses, payments), 1)

\* --------------------------------------------------- minimizeTransactions
\* an entry per side of every balance, never collapsed into one per member
SeparateStep(netAmounts, balance) ==
  netAmounts \o <<[key |-> balance.from, val |-> DNeg(balance.amount)],
                  [key |-> balance.to, val |-> balance.amount]>>

\* only the debit of the two Map.set calls
DebitOnly(netAmounts, balance) ==
  MapSet(netAmounts, balance.from,
         DSub(MapGetOr0(netAmounts, balance.from), balance.amount))

\* body of balances.forEach for one balance: two Map.set calls in sequence
NetStep(netAmounts, balance) ==
  LET afterFrom == MapSet(netAmounts, balance.from,
                          DSub(MapGetOr0(netAmounts, balance.from), balance.amount))
  IN MapSet(afterFrom, balance.to, DAdd(MapGetOr0(afterFrom, balance.to), balance.amount))

RECURSIVE NetLoop(_, _, _)
\* balances.forEach(...) from position i on
NetLoop(netAmounts, balances, i) ==
  IF i > Len(balances) THEN netAmounts
  ELSE NetLoop(NetStep(netAmounts, balances[i]), balances, i + 1)

\* the per-member map after the forEach
NetAmounts(balances) == NetLoop(<<>>, balances, 1)

\* amount < -0.01
IsDebtor(entry) == DLess(entry.val, DNeg(EPS))

\* a plain if on the magnitude in place of the else-if
BeyondEpsilon(entry) == DLess(EPS, DAbs(entry.val))

\* else if (amount > 0.01)
IsCreditor(entry) == ~IsDebtor(entry) /\ DLess(EPS, entry.val)

RECURSIVE DebtorsFrom(_, _)
\* the debtors array in push order
DebtorsFrom(netAmounts, i) ==
  IF i > Len(netAmounts) THEN <<>>
  ELSE IF IsDebtor(netAmounts[i])
       THEN <<[id |-> netAmounts[i].key, amount |-> DAbs(netAmounts[i].val)]>>
            \o DebtorsFrom(netAmounts, i + 1)
       ELSE DebtorsFrom(netAmounts, i + 1)

RECURSIVE CreditorsFrom(_, _)
\* the creditors array in push order
CreditorsFrom(netAmounts, i) ==
  IF i > Len(netAmounts) THEN <<>>
  ELSE IF IsCreditor(netAmounts[i])
       THEN <<[id |-> netAmounts[i].key, amount |-> netAmounts[i].val]>>
            \o CreditorsFrom(netAmounts, i + 1)
       ELSE CreditorsFrom(netAmounts, i + 1)

RECURSIVE InsertDesc(_, _)
\* insert x into the descending list after every element that is not smaller
InsertDesc(sorted, x) ==
  IF sorted = <<>> THEN <<x>>
  ELSE IF ~DLess(sorted[1].amount, x.amount)
       THEN <<sorted[1]>> \o InsertDesc(Tail(sorted), x)
       ELSE <<x>> \o sorted

\* the first i entries in the order of the Map, not sorted
Unsorted(arr, i) == SubSeq(arr, 1, i)

RECURSIVE SortDesc(_, _)
\* arr.sort((a, b) => b.amount - a.amount): stable, largest amount first
SortDesc(arr, i) ==
  IF i = 0 THEN <<>> ELSE InsertDesc(SortDesc(arr, i - 1), arr[i])

\* the locals of minimizeTransactions on entry to the while loop
LoopEntry(balances) ==
  LET netAmounts == NetAmounts(balances)
      ds == DebtorsFrom(netAmounts, 1)
      cs == CreditorsFrom(netAmounts, 1)
  IN [debtors |-> SortDesc(ds, Len(ds)), creditors |-> SortDesc(cs, Len(cs)),
      settlements |-> <<>>, debtorIndex |-> 0, creditorIndex |-> 0]

\* debtorIndex < debtors.length && creditorIndex < creditors.length
LoopCond(st) ==
  st.debtorIndex < Len(st.debtors) /\ st.creditorIndex < Len(st.creditors)

\* the test  < 0  in place of  < 0.01
BelowZero(left) == DLess(left, Zero)

\* debtor.amount < 0.01, creditor.amount < 0.01
Exhausted(left) == DLess(left, EPS)

\* one iteration of the while loop (array indices are 0-based in the source)
LoopBody(st) ==
  LET debtor == st.debtors[st.debtorIndex + 1]
      creditor == st.creditors[st.creditorIndex + 1]
      amount == Min(debtor.amount, creditor.amount)
      debtorLeft == DSub(debtor.amount, amount)
      creditorLeft == DSub(creditor.amount, amount)
  IN [debtors |-> [st.debtors EXCEPT ![st.debtorIndex + 1].amount = debtorLeft],
      creditors |-> [st.creditors EXCEPT ![st.creditorIndex + 1].amount = creditorLeft],
      settlements |-> Append(st.settlements,
                             [from |-> debtor.id, to |-> creditor.id,
                              amount |-> ToFixed2(amount)]),
      debtorIndex |-> IF Exhausted(debtorLeft) THEN st.debtorIndex + 1 ELSE st.debtorIndex,
      creditorIndex |-> IF Exhausted(creditorLeft) THEN st.creditorIndex + 1
                        ELSE st.creditorIndex]

RECURSIVE RunLoop(_)
\* the while loop run to its exit
RunLoop(st) == IF LoopCond(st) THEN RunLoop(LoopBody(st)) ELSE st

minimizeTransactions(balances) == RunLoop(LoopEntry(balances)).settlements

\* ------------------------------------------------------------ input space
A == <<65>>
B == <<66>>
C == <<67>>

\* member identifiers without the separator character, as Firebase uids are
Members == {A, B, C}

MaxRecords == 2
MaxBalances == 2

\* the number a decimal literal or parseFloat gives for k hundredths, k
\* thousandths, k whole units
Cents(k) == Ratio(k, 100)
Mills(k) == Ratio(k, 1000)
Units(k) == Ratio(k, 1)

\* amounts in whole cents, as the forms of the application submit them
ExpenseAmounts == {Cents(1), Cents(3)}
PaymentAmounts == {Cents(1), Cents(2)}
BalanceAmounts == {Cents(1), Cents(2), Cents(3)}

\* amounts with thousandths, which the functions accept as well
MillAmounts == {Mills(9), Cents(1), Mills(11)}

\* amounts in whole currency units
ScenarioAmounts == {Units(30), Units(60)}
ScenarioPayments == {Units(10)}

\* lists of distinct members in ascending order, the empty list included
SharedLists ==
  UNION {{s \in [1..n -> Members] : \A i \in 1..(n - 1) : StrLess(s[i], s[i + 1])}
         : n \in 0..Cardinality(Members)}

\* well-formed records: the forms always put the payer in sharedWith, and a
\* payment runs between two different members
ExpenseRecords(amounts) ==
  {e \in [amount : amounts, paidBy : Members, sharedWith : SharedLists] :
     \E i \in DOMAIN e.sharedWith : e.sharedWith[i] = e.paidBy}

PaymentRecords(amounts) ==
  {p \in [from : Members, to : Members, amount : amounts] : p.from # p.to}

\* any Balance, one with from = to included
BalanceRecords(amounts) == [from : Members, to : Members, amount : amounts]

SeqsUpTo(S, n) == UNION {[1..k -> S] : k \in 0..n}

\* ------------------------------------------------------------------ state
\* store: the expense and payment documents of the group in Firestore, as the
\* two subscription queries return them (newest first)
\* groupDoc: the group document in Firestore (its members array), or NoGroup
\* paymentDocs, activityDocs: the documents added to the payments and
\* activities collections, oldest first
\* call: the createPayment call in flight (its argument and the error it threw)
\* joins: for each user accepting an invitation, the handler's position and
\* the members array it read
\* form: the state of the expense form of GroupDetails (selectedMembers,
\* selectedPaidBy, editingExpense)
VARIABLES expenses, payments, balances, settlements,
          debtors, creditors, debtorIndex, creditorIndex, pc, store,
          groupDoc, paymentDocs, activityDocs, call, joins, form

vars == <<expenses, payments, balances, settlements,
          debtors, creditors, debtorIndex, creditorIndex, pc, store,
          groupDoc, paymentDocs, activityDocs, call, joins, form>>

service == <<groupDoc, paymentDocs, activityDocs, call, joins, form>>

NoGroup == [exists |-> FALSE, members |-> <<>>]

NoCall == [data |-> <<>>, error |-> <<>>]

\* resetExpenseForm: nobody ticked, no payer chosen, no expense being edited
NoForm == [selectedMembers |-> <<>>, selectedPaidBy |-> <<>>, editingExpense |-> 0]

\* the service layer and the forms are not involved
NoService ==
  /\ groupDoc = NoGroup
  /\ paymentDocs = <<>>
  /\ activityDocs = <<>>
  /\ call = NoCall
  /\ joins = <<>>
  /\ form = NoForm

\* no document: the two functions are called on lists given directly
EmptyStore == [expenses |-> <<>>, payments |-> <<>>]

loopState == [debtors |-> debtors, creditors |-> creditors,
              settlements |-> settlements,
              debtorIndex |-> debtorIndex, creditorIndex |-> creditorIndex]

NoLocals ==
  /\ settlements = <<>>
  /\ debtors = <<>>
  /\ creditors = <<>>
  /\ debtorIndex = 0
  /\ creditorIndex = 0

\* the records of a group, at most MaxRecords of them
InitRecords(expenseAmounts, paymentAmounts) ==
  /\ \E ne \in 0..MaxRecords :
       /\ expenses \in [1..ne -> ExpenseRecords(expenseAmounts)]
       /\ payments \in SeqsUpTo(PaymentRecords(paymentAmounts), MaxRecords - ne)
  /\ balances = <<>>
  /\ NoLocals
  /\ store = EmptyStore
  /\ NoService
  /\ pc = "input"

\* minimizeTransactions called on an arbitrary Balance list
InitBalances(amounts) ==
  /\ expenses = <<>>
  /\ payments = <<>>
  /\ balances \in SeqsUpTo(BalanceRecords(amounts), MaxBalances)
  /\ NoLocals
  /\ store = EmptyStore
  /\ NoService
  /\ pc = "calculated"

Init == InitRecords(ExpenseAmounts, PaymentAmounts)

InitScenario == InitRecords(ScenarioAmounts, ScenarioPayments)

InitMin == InitBalances(BalanceAmounts)

\* whole cents and thousandths together
InitMixed == InitBalances({Mills(9), Cents(1), Cents(2)})

InitMills == InitRecords(ExpenseAmounts, MillAmounts) \/ InitBalances(MillAmounts)

\* the records of a group of two, A and B, who share every expense: one record
\* more than MaxRecords, so that three records can meet on the one pair
OrderRecords == MaxRecords + 1

PairExpenses ==
  {e \in ExpenseRecords(ExpenseAmounts) : e.paidBy # C /\ e.sharedWith = <<A, B>>}

PairPayments == {p \in PaymentRecords(PaymentAmounts) : {p.from, p.to} = {A, B}}

InitOrder ==
  /\ \E ne \in 0..OrderRecords :
       /\ expenses \in [1..ne -> PairExpenses]
       /\ payments \in SeqsUpTo(PairPayments, OrderRecords - ne)
  /\ balances = <<>>
  /\ NoLocals
  /\ store = EmptyStore
  /\ NoService
  /\ pc = "input"

\* records the two functions accept although no form submits them: an expense
\* shared with nobody, a payment from a member to themselves
DegenerateExpenses ==
  ExpenseRecords(ExpenseAmounts)
    \cup [amount : ExpenseAmounts, paidBy : Members, sharedWith : {<<>>}]

DegeneratePayments == [from : Members, to : Members, amount : PaymentAmounts]

InitDegenerate ==
  /\ \E ne \in 0..MaxRecords :
       /\ expenses \in [1..ne -> DegenerateExpenses]
       /\ payments \in SeqsUpTo(DegeneratePayments, MaxRecords - ne)
  /\ balances = <<>>
  /\ NoLocals
  /\ store = EmptyStore
  /\ NoService
  /\ pc = "input"

\* member identifiers that contain the character '-': "A-B" and "B-C", next
\* to "A" and "C"
DashMembers == {<<65>>, <<65, Dash, 66>>, <<66, Dash, 67>>, <<67>>}

\* expenses shared by the payer and one other member, payments between two
\* different members
InitDash ==
  /\ \E ne \in 0..MaxRecords :
       /\ expenses \in [1..ne ->
            {e \in [amount : {Cents(2)}, paidBy : DashMembers,
                    sharedWith : [1..2 -> DashMembers]] :
               e.sharedWith[1] = e.paidBy /\ e.sharedWith[2] # e.paidBy}]
       /\ payments \in SeqsUpTo(
            {p \in [from : DashMembers, to : DashMembers, amount : PaymentAmounts] :
               p.from # p.to}, MaxRecords - ne)
  /\ balances = <<>>
  /\ NoLocals
  /\ store = EmptyStore
  /\ NoService
  /\ pc = "input"

\* balances = calculateBalances(expenses, payments)
Calculate ==
  /\ pc = "input"
  /\ balances' = calculateBalances(expenses, payments)
  /\ pc' = "calculated"
  /\ UNCHANGED <<expenses, payments, settlements, debtors, creditors,
                 debtorIndex, creditorIndex, store>>
  /\ UNCHANGED service

\* minimizeTransactions(balances) up to the while loop
MinimizeEnter ==
  /\ pc = "calculated"
  /\ \E st \in {LoopEntry(balances)} :
        /\ debtors' = st.debtors
        /\ creditors' = st.creditors
        /\ settlements' = st.settlements
        /\ debtorIndex' = st.debtorIndex
        /\ creditorIndex' = st.creditorIndex
  /\ pc' = "loop"
  /\ UNCHANGED <<expenses, payments, balances, store>>
  /\ UNCHANGED service

\* an iteration that also takes a Balance off the list it was given
MinimizeConsuming ==
  /\ pc = "loop"
  /\ LoopCond(loopState)
  /\ \E st \in {LoopBody(loopState)} :
        /\ debtors' = st.debtors
        /\ creditors' = st.creditors
        /\ settlements' = st.settlements
        /\ debtorIndex' = st.debtorIndex
        /\ creditorIndex' = st.creditorIndex
  /\ balances' = Rest(balances)
  /\ UNCHANGED <<expenses, payments, pc, store>>
  /\ UNCHANGED service

\* one iteration of the while loop
MinimizeIterate ==
  /\ pc = "loop"
  /\ LoopCond(loopState)
  /\ \E st \in {LoopBody(loopState)} :
        /\ debtors' = st.debtors
        /\ creditors' = st.creditors
        /\ settlements' = st.settlements
        /\ debtorIndex' = st.debtorIndex
        /\ creditorIndex' = st.creditorIndex
  /\ UNCHANGED <<expenses, payments, balances, pc, store>>
  /\ UNCHANGED service

\* the loop condition fails: return settlements
MinimizeReturn ==
  /\ pc = "loop"
  /\ ~LoopCond(loopState)
  /\ pc' = "done"
  /\ UNCHANGED <<expenses, payments, balances, settlements, debtors, creditors,
                 debtorIndex, creditorIndex, store>>
  /\ UNCHANGED service

Next == Calculate \/ MinimizeEnter \/ MinimizeIterate \/ MinimizeReturn

NextMin == MinimizeEnter \/ MinimizeIterate \/ MinimizeReturn

Spec == Init /\ [][Next]_vars

SpecScenario == InitScenario /\ [][Next]_vars

SpecMin == InitMin /\ [][NextMin]_vars

\* a call, once made, runs on (the function is synchronous): weak fairness of
\* each step.  For the two steps that compute, WF_vars is written out with the
\* step's enabling condition, which is its guard: each changes vars.
SpecMinFair ==
  /\ SpecMin
  /\ []<>(pc # "calculated") \/ []<><<MinimizeEnter>>_vars
  /\ []<>(~(pc = "loop" /\ LoopCond(loopState))) \/ []<><<MinimizeIterate>>_vars
  /\ WF_vars(MinimizeReturn)

\* either entry point, amounts with thousandths
SpecMills == InitMills /\ [][Next]_vars

\* minimizeTransactions on lists of whole-cent amounts and on others
SpecMixed == InitMixed /\ [][NextMin]_vars

\* a group of two with up to OrderRecords records
SpecOrder == InitOrder /\ [][Next]_vars

\* malformed records included
SpecDegenerate == InitDegenerate /\ [][Next]_vars

\* identifiers with '-' included
SpecDash == InitDash /\ [][Next]_vars

\* ------------------------------------------------------------ GroupDetails
\* The component keeps the latest snapshot of each subscription in its state
\* (expenses, payments) and derives balances and settlements from them when it
\* renders.  pc is "stale" between a setExpenses or setPayments call and the
\* render it schedules, "rendered" otherwise.

\* what the forms of the component submit
ViewExpenses ==
  {e \in ExpenseRecords(ScenarioAmounts) : e.amount = Units(30) /\ e.paidBy = A}

ViewPayments == PaymentRecords(ScenarioPayments)

\* the group's documents when the component mounts
StoresAtMount ==
  {s \in [expenses : SeqsUpTo(ViewExpenses, MaxRecords),
          payments : SeqsUpTo(ViewPayments, MaxRecords)] :
     Len(s.expenses) + Len(s.payments) <= MaxRecords}

\* useState([]) for both lists and the first render
InitView ==
  /\ expenses = <<>>
  /\ payments = <<>>
  /\ balances = <<>>
  /\ NoLocals
  /\ store \in StoresAtMount
  /\ NoService
  /\ pc = "rendered"

Mounted == pc \in {"rendered", "stale"}

StoreHasRoom == Len(store.expenses) + Len(store.payments) < MaxRecords

\* handleCreateExpense -> createExpense: a document is added
CreateExpense ==
  /\ Mounted
  /\ StoreHasRoom
  /\ \E e \in ViewExpenses : store' = [store EXCEPT !.expenses = <<e>> \o @]
  /\ UNCHANGED <<expenses, payments, balances, settlements, debtors, creditors,
                 debtorIndex, creditorIndex, pc>>
  /\ UNCHANGED service

\* handleRecordPayment -> createPayment: a document is added
RecordPayment ==
  /\ Mounted
  /\ StoreHasRoom
  /\ \E p \in ViewPayments : store' = [store EXCEPT !.payments = <<p>> \o @]
  /\ UNCHANGED <<expenses, payments, balances, settlements, debtors, creditors,
                 debtorIndex, creditorIndex, pc>>
  /\ UNCHANGED service

\* the callback of subscribeToExpenses: setExpenses(updatedExpenses)
OnExpensesSnapshot ==
  /\ Mounted
  /\ expenses # store.expenses
  /\ expenses' = store.expenses
  /\ pc' = "stale"
  /\ UNCHANGED <<payments, balances, settlements, debtors, creditors,
                 debtorIndex, creditorIndex, store>>
  /\ UNCHANGED service

\* the callback of subscribeToPayments: setPayments(updatedPayments)
OnPaymentsSnapshot ==
  /\ Mounted
  /\ payments # store.payments
  /\ payments' = store.payments
  /\ pc' = "stale"
  /\ UNCHANGED <<expenses, balances, settlements, debtors, creditors,
                 debtorIndex, creditorIndex, store>>
  /\ UNCHANGED service

\* a memo that depends on the expenses alone
BalancesOfExpenses(es, ps) == calculateBalances(es, <<>>)

\* the balances useMemo
BalancesMemo(es, ps) ==
  IF Len(es) = 0 /\ Len(ps) = 0 THEN <<>> ELSE calculateBalances(es, ps)

\* the settlements useMemo
SettlementsMemo(bs) == IF Len(bs) = 0 THEN <<>> ELSE minimizeTransactions(bs)

\* the render scheduled by setExpenses or setPayments: both memos recompute
Render ==
  /\ pc = "stale"
  /\ \E bs \in {BalancesMemo(expenses, payments)} :
        /\ balances' = bs
        /\ settlements' = SettlementsMemo(bs)
  /\ pc' = "rendered"
  /\ UNCHANGED <<expenses, payments, debtors, creditors,
                 debtorIndex, creditorIndex, store>>
  /\ UNCHANGED service

NextView ==
  CreateExpense \/ RecordPayment \/ OnExpensesSnapshot \/ OnPaymentsSnapshot \/ Render

SpecView == InitView /\ [][NextView]_vars

\* a subscription delivers the changed query result and React runs the render
\* it scheduled: weak fairness of the two callbacks and of Render (written out
\* with its enabling condition, its guard)
SpecViewFair ==
  /\ SpecView
  /\ WF_vars(OnExpensesSnapshot)
  /\ WF_vars(OnPaymentsSnapshot)
  /\ []<>(pc # "stale") \/ []<><<Render>>_vars

\* ------------------------------------------ firebaseService: createPayment
\* Strings are sequences of character codes; an absent or empty string is <<>>.
Includes(s, sub) ==
  \E i \in 0..(Len(s) - Len(sub)) : SubSeq(s, i + 1, i + Len(sub)) = sub

\* arr.includes(x)
ArrIncludes(arr, x) == \E i \in DOMAIN arr : arr[i] = x

\* 'Missing required payment fields'
MissingFields ==
  <<77, 105, 115, 115, 105, 110, 103, 32, 114, 101, 113, 117, 105, 114, 101,
    100, 32, 112, 97, 121, 109, 101, 110, 116, 32, 102, 105, 101, 108, 100,
    115>>

\* 'Cannot record payment from person to themselves'
ToThemselves ==
  <<67, 97, 110, 110, 111, 116, 32, 114, 101, 99, 111, 114, 100, 32, 112, 97,
    121, 109, 101, 110, 116, 32, 102, 114, 111, 109, 32, 112, 101, 114, 115,
    111, 110, 32, 116, 111, 32, 116, 104, 101, 109, 115, 101, 108, 118, 101,
    115>>

\* 'Payment amount must be greater than 0'
NotPositive ==
  <<80, 97, 121, 109, 101, 110, 116, 32, 97, 109, 111, 117, 110, 116, 32,
    109, 117, 115, 116, 32, 98, 101, 32, 103, 114, 101, 97, 116, 101, 114,
    32, 116, 104, 97, 110, 32, 48>>

\* 'Group not found'
GroupNotFound ==
  <<71, 114, 111, 117, 112, 32, 110, 111, 116, 32, 102, 111, 117, 110, 100>>

\* 'You must be a member of the group to record payments'
MustBeMember ==
  <<89, 111, 117, 32, 109, 117, 115, 116, 32, 98, 101, 32, 97, 32, 109, 101,
    109, 98, 101, 114, 32, 111, 102, 32, 116, 104, 101, 32, 103, 114, 111,
    117, 112, 32, 116, 111, 32, 114, 101, 99, 111, 114, 100, 32, 112, 97,
    121, 109, 101, 110, 116, 115>>

\* 'not found'
TextNotFound ==
  <<110, 111, 116, 32, 102, 111, 117, 110, 100>>

\* 'member'
TextMember ==
  <<109, 101, 109, 98, 101, 114>>

\* the message of the error getDoc rejects with when the rules deny the read
\* 'Missing or insufficient permissions.'
InsufficientPermissions ==
  <<77, 105, 115, 115, 105, 110, 103, 32, 111, 114, 32, 105, 110, 115, 117,
    102, 102, 105, 99, 105, 101, 110, 116, 32, 112, 101, 114, 109, 105, 115,
    115, 105, 111, 110, 115, 46>>

NoError == <<>>

\* the arguments createPayment is called with; a field can be absent, and the
\* amount can be zero or negative.  In the group, if it exists, A and B are
\* members and C is not.
PaymentRequests ==
  [groupId : {<<71>>, <<>>}, from : {A, B, <<>>}, to : {A, B, <<>>},
   amountGiven : BOOLEAN, amount : {Cents(1), Zero, DNeg(Cents(1))},
   createdBy : {A, C, <<>>}]

\* the first test: !s for each of the four strings, !amount for the number
FieldMissing(data) ==
  \/ data.groupId = <<>> \/ data.from = <<>> \/ data.to = <<>>
  \/ ~data.amountGiven \/ data.amount = Zero
  \/ data.createdBy = <<>>

\* the checks before the first await, without the one on from and to
ValidationOfFieldsAndAmount(data) ==
  IF FieldMissing(data) THEN MissingFields
    ELSE IF ~DLess(Zero, data.amount) THEN NotPositive ELSE NoError

\* the three checks before the first await: the message of the error thrown
Validation(data) ==
  IF FieldMissing(data) THEN MissingFields
    ELSE IF data.from = data.to THEN ToThemselves
    ELSE IF ~DLess(Zero, data.amount) THEN NotPositive
    ELSE NoError

\* the try block around getGroup: the message of the error it throws, given
\* what getGroup did (rejected with a message, or resolved with the document)
LookupThrows(rejection, group, data) ==
  IF rejection # NoError THEN rejection
  ELSE IF ~group.exists THEN GroupNotFound
  ELSE IF ~ArrIncludes(group.members, data.createdBy) THEN MustBeMember
  ELSE NoError

\* the catch block: the error is thrown again only for these two texts
Rethrown(message) ==
  /\ message # <<>>
  /\ Includes(message, TextNotFound) \/ Includes(message, TextMember)

\* paymentDoc, without the fields the claims do not speak of
PaymentDoc(data) ==
  [groupId |-> data.groupId, from |-> data.from, to |-> data.to,
   amount |-> data.amount, createdBy |-> data.createdBy]

InitPayment ==
  /\ expenses = <<>>
  /\ payments = <<>>
  /\ balances = <<>>
  /\ NoLocals
  /\ store = EmptyStore
  /\ groupDoc \in {NoGroup, [exists |-> TRUE, members |-> <<A, B>>]}
  /\ paymentDocs = <<>>
  /\ activityDocs = <<>>
  /\ call \in [data : PaymentRequests, error : {NoError}]
  /\ joins = <<>>
  /\ form = NoForm
  /\ pc = "validate"

engine == <<expenses, payments, balances, settlements, debtors, creditors,
            debtorIndex, creditorIndex, store>>

\* the checks on the argument, before anything is awaited
Validate ==
  /\ pc = "validate"
  /\ call' = [call EXCEPT !.error = Validation(call.data)]
  /\ pc' = IF Validation(call.data) = NoError THEN "lookup" ELSE "thrown"
  /\ UNCHANGED <<engine, groupDoc, paymentDocs, activityDocs, joins, form>>

\* await getGroup and the membership check, with the catch around them
Lookup ==
  /\ pc = "lookup"
  /\ \E rejection \in {InsufficientPermissions, NoError} :
       \E thrown \in {LookupThrows(rejection, groupDoc, call.data)} :
          IF Rethrown(thrown)
            THEN /\ call' = [call EXCEPT !.error = thrown]
                 /\ pc' = "thrown"
            ELSE /\ call' = call
                 /\ pc' = "write"
  /\ UNCHANGED <<engine, groupDoc, paymentDocs, activityDocs, joins, form>>

\* await addDoc(paymentsRef, paymentDoc): the document is stored, or addDoc
\* rejects and the outer catch throws
Write ==
  /\ pc = "write"
  /\ \/ /\ paymentDocs' = Append(paymentDocs, PaymentDoc(call.data))
        /\ pc' = "activity"
        /\ call' = call
     \/ /\ paymentDocs' = paymentDocs
        /\ pc' = "thrown"
        /\ call' = [call EXCEPT !.error = InsufficientPermissions]
  /\ UNCHANGED <<engine, groupDoc, activityDocs, joins, form>>

\* the inner try: getUser and createActivity; their errors are only logged
Activity ==
  /\ pc = "activity"
  /\ \/ activityDocs' = Append(activityDocs, [groupId |-> call.data.groupId,
                                                 userId |-> call.data.createdBy])
     \/ activityDocs' = activityDocs
  /\ pc' = "returned"
  /\ UNCHANGED <<engine, groupDoc, paymentDocs, call, joins, form>>

NextPayment == Validate \/ Lookup \/ Write \/ Activity

SpecPayment == InitPayment /\ [][NextPayment]_vars

\* ------------------------------------------- GroupDetails: the expense form
\* the members of the group, whose boxes and payer options the form shows
GroupMembers == {A, B}

InitForm ==
  /\ expenses = <<>>
  /\ payments = <<>>
  /\ balances = <<>>
  /\ NoLocals
  /\ store = EmptyStore
  /\ groupDoc = NoGroup
  /\ paymentDocs = <<>>
  /\ activityDocs = <<>>
  /\ call = NoCall
  /\ joins = <<>>
  /\ form = NoForm
  /\ pc = "form"

\* the + Add Expense button: resetExpenseForm, then the user as payer (the
\* signed-in user is A)
OpenAddExpense ==
  /\ pc = "form"
  /\ form' = [NoForm EXCEPT !.selectedPaidBy = A]
  /\ UNCHANGED <<engine, pc, groupDoc, paymentDocs, activityDocs, call, joins>>

\* toggleMember: the box of a member is ticked or cleared
ToggleMember ==
  /\ pc = "form"
  /\ \E m \in GroupMembers :
       form' = [form EXCEPT !.selectedMembers =
                  IF ArrIncludes(@, m) THEN SelectSeq(@, LAMBDA id : id # m)
                  ELSE Append(@, m)]
  /\ UNCHANGED <<engine, pc, groupDoc, paymentDocs, activityDocs, call, joins>>

\* the payer select: setSelectedPaidBy(e.target.value)
SelectPaidBy ==
  /\ pc = "form"
  /\ \E m \in GroupMembers : form' = [form EXCEPT !.selectedPaidBy = m]
  /\ UNCHANGED <<engine, pc, groupDoc, paymentDocs, activityDocs, call, joins>>

\* handleEditExpense: the form is filled from a stored expense
EditExpense ==
  /\ pc = "form"
  /\ \E i \in DOMAIN store.expenses :
       form' = [selectedMembers |-> store.expenses[i].sharedWith,
                selectedPaidBy |-> store.expenses[i].paidBy,
                editingExpense |-> i]
  /\ UNCHANGED <<engine, pc, groupDoc, paymentDocs, activityDocs, call, joins>>

\* the ticked members as they are
AsTicked(selected, paidBy) == selected

\* selectedMembers.includes(paidBy) ? selectedMembers : [...selectedMembers, paidBy]
SharedWithOf(selected, paidBy) ==
  IF ArrIncludes(selected, paidBy) THEN selected ELSE Append(selected, paidBy)

\* the fields both handlers hand to the service: the amount typed (30),
\* paidBy = selectedPaidBy || user.uid, and sharedWith
Submitted(f) ==
  LET paidBy == IF f.selectedPaidBy = <<>> THEN A ELSE f.selectedPaidBy
  IN [amount |-> Units(30), paidBy |-> paidBy,
      sharedWith |-> SharedWithOf(f.selectedMembers, paidBy)]

\* handleCreateExpense with a title and a valid amount: it returns at once when
\* nobody is ticked, else createExpense adds the document and the form is reset
HandleCreateExpense ==
  /\ pc = "form"
  /\ form.editingExpense = 0
  /\ Len(form.selectedMembers) # 0
  /\ Len(store.expenses) < MaxRecords
  /\ store' = [store EXCEPT !.expenses = <<Submitted(form)>> \o @]
  /\ form' = NoForm
  /\ UNCHANGED <<expenses, payments, balances, settlements, debtors, creditors,
                 debtorIndex, creditorIndex, pc>>
  /\ UNCHANGED <<groupDoc, paymentDocs, activityDocs, call, joins>>

\* handleUpdateExpense with a title and a valid amount: it returns at once when
\* nobody is ticked, else updateExpense overwrites the four fields
HandleUpdateExpense ==
  /\ pc = "form"
  /\ form.editingExpense # 0
  /\ Len(form.selectedMembers) # 0
  /\ store' = [store EXCEPT !.expenses[form.editingExpense] = Submitted(form)]
  /\ form' = NoForm
  /\ UNCHANGED <<expenses, payments, balances, settlements, debtors, creditors,
                 debtorIndex, creditorIndex, pc>>
  /\ UNCHANGED <<groupDoc, paymentDocs, activityDocs, call, joins>>

NextForm ==
  \/ OpenAddExpense \/ ToggleMember \/ SelectPaidBy
  \/ EditExpense \/ HandleCreateExpense \/ HandleUpdateExpense

SpecForm == InitForm /\ [][NextForm]_vars

\* ------------------------------------------------- joining a group
\* Users accept an invitation to the same group, each through JoinPage
\* (handleAccept) or JoinByCode (handleJoinByCode).  Every await is a point at
\* which another user's handler can run.  A is a member from the start.
Joiners == {A, B, C}

InitJoin ==
  /\ expenses = <<>>
  /\ payments = <<>>
  /\ balances = <<>>
  /\ NoLocals
  /\ store = EmptyStore
  /\ groupDoc \in [exists : {TRUE}, members : {<<A>>, <<A, B>>}]
  /\ paymentDocs = <<>>
  /\ activityDocs = <<>>
  /\ call = NoCall
  /\ joins \in [Joiners -> [handler : {"accept", "code"}, at : {"idle"},
                            members : {<<>>}]]
  /\ form = NoForm
  /\ pc = "joining"

\* handleAccept: currentGroup = await getGroup(group.id) and the test
\* !currentGroup.members.includes(user.uid)
AcceptRead ==
  /\ \E u \in Joiners :
       /\ joins[u].handler = "accept"
       /\ joins[u].at = "idle"
       /\ joins' = [joins EXCEPT ![u] =
                      IF ArrIncludes(groupDoc.members, u)
                      THEN [@ EXCEPT !.at = "done"]
                      ELSE [@ EXCEPT !.at = "write", !.members = groupDoc.members]]
  /\ UNCHANGED <<engine, pc, groupDoc, paymentDocs, activityDocs, call, form>>

\* members: [...currentGroup.members, user.uid]
UpdatedMembers(members, uid) == Append(members, uid)

\* handleAccept: await updateGroup(group.id, {members: updatedMembers, ...})
AcceptWrite ==
  /\ \E u \in Joiners :
       /\ joins[u].handler = "accept"
       /\ joins[u].at = "write"
       /\ groupDoc' = [groupDoc EXCEPT !.members = UpdatedMembers(joins[u].members, u)]
       /\ joins' = [joins EXCEPT ![u].at = "done"]
  /\ UNCHANGED <<engine, pc, paymentDocs, activityDocs, call, form>>

\* handleJoinByCode: group = await getGroupByJoinCode(code) and the test
\* group.members.includes(user.uid)
CodeFind ==
  /\ \E u \in Joiners :
       /\ joins[u].handler = "code"
       /\ joins[u].at = "idle"
       /\ joins' = [joins EXCEPT ![u].at =
                      IF ArrIncludes(groupDoc.members, u) THEN "done" ELSE "read"]
  /\ UNCHANGED <<engine, pc, groupDoc, paymentDocs, activityDocs, call, form>>

\* handleJoinByCode: currentGroup = await getGroup(group.id)
CodeRead ==
  /\ \E u \in Joiners :
       /\ joins[u].handler = "code"
       /\ joins[u].at = "read"
       /\ joins' = [joins EXCEPT ![u] = [@ EXCEPT !.at = "write",
                                                  !.members = groupDoc.members]]
  /\ UNCHANGED <<engine, pc, groupDoc, paymentDocs, activityDocs, call, form>>

\* handleJoinByCode: await updateGroup(group.id, {members: updatedMembers, ...})
CodeWrite ==
  /\ \E u \in Joiners :
       /\ joins[u].handler = "code"
       /\ joins[u].at = "write"
       /\ groupDoc' = [groupDoc EXCEPT !.members = UpdatedMembers(joins[u].members, u)]
       /\ joins' = [joins EXCEPT ![u].at = "done"]
  /\ UNCHANGED <<engine, pc, paymentDocs, activityDocs, call, form>>

NextJoin == AcceptRead \/ AcceptWrite \/ CodeFind \/ CodeRead \/ CodeWrite

SpecJoin == InitJoin /\ [][NextJoin]_vars

\* ------------------------------------------------- vocabulary of the claims
\* The claims speak of amounts as decimals.  Exact(x) is the decimal a number
\* stands for, as an integer count of 6000ths of a currency unit, for a number
\* written with at most three decimals; thirds and halves of such amounts are
\* then integers too.
Mill == 2 * 3
Cent == 10 * Mill

Abs(n) == IF n < 0 THEN -n ELSE n

Exact(x) == (IF x.neg THEN -1 ELSE 1) * Mill * NearestIntAway(x, 1000)

\* x is the number nearest to a whole count of cents
IsCents(x) == DAbs(x) = Ratio(NearestIntAway(x, 100), 100)

RECURSIVE SumSeq(_)
SumSeq(s) == IF s = <<>> THEN 0 ELSE s[1] + SumSeq(Tail(s))

AsSet(s) == {s[i] : i \in DOMAIN s}

Count(s, x) == Cardinality({i \in DOMAIN s : s[i] = x})

\* total amount of the entries of list with from = m, and with to = m
SentBy(m, list) ==
  SumSeq([i \in DOMAIN list |-> IF list[i].from = m THEN Exact(list[i].amount) ELSE 0])

ReceivedBy(m, list) ==
  SumSeq([i \in DOMAIN list |-> IF list[i].to = m THEN Exact(list[i].amount) ELSE 0])

NetDebit(m, list) ==
  IF SentBy(m, list) > ReceivedBy(m, list)
  THEN SentBy(m, list) - ReceivedBy(m, list) ELSE 0

NetCredit(m, list) ==
  IF ReceivedBy(m, list) > SentBy(m, list)
  THEN ReceivedBy(m, list) - SentBy(m, list) ELSE 0

\* what x owes y by the records, exactly and signed: x's shares of what y paid
\* and y's payments to x, less the same the other way round
Owed(x, y, es, ps) ==
  SumSeq([i \in DOMAIN es |->
            IF es[i].paidBy = y /\ Len(es[i].sharedWith) > 0
            THEN Count(es[i].sharedWith, x) * (Exact(es[i].amount) \div Len(es[i].sharedWith))
            ELSE 0])
  + SumSeq([i \in DOMAIN ps |-> IF ps[i].from = y /\ ps[i].to = x THEN Exact(ps[i].amount) ELSE 0])

Debt(x, y, es, ps) == Owed(x, y, es, ps) - Owed(y, x, es, ps)

\* the entries of list between x and y, in either direction
Between(x, y, list) ==
  {i \in DOMAIN list : {list[i].from, list[i].to} = {x, y}}

\* a record by which x comes to owe y
OwesRecord(x, y) ==
  \/ \E i \in DOMAIN expenses :
       expenses[i].paidBy = y /\ Count(expenses[i].sharedWith, x) > 0
  \/ \E i \in DOMAIN payments : payments[i].from = y /\ payments[i].to = x

\* the settlements recorded as payments (same from, to, amount)
AsPayments(list) ==
  [i \in DOMAIN list |->
     [from |-> list[i].from, to |-> list[i].to, amount |-> list[i].amount]]

\* x >= 0 rounded to the nearest cent, a half cent upward
NearestCent(x) == ((2 * x + Cent) \div (2 * Cent)) * Cent

\* the amount of the Balance from x to y in list, 0.00 when there is none
AmountFromTo(x, y, list) ==
  SumSeq([i \in DOMAIN list |->
            IF list[i].from = x /\ list[i].to = y THEN Exact(list[i].amount) ELSE 0])

\* the members listed in a debtors or creditors array
Ids(arr) == {arr[i].id : i \in DOMAIN arr}

Reorderings(s) ==
  {[i \in DOMAIN s |-> s[p[i]]] :
     p \in {q \in [DOMAIN s -> DOMAIN s] : \A i, j \in DOMAIN s : q[i] = q[j] => i = j}}

\* ----------------------------------------------------------------- claims

\* C1: when minimizeTransactions has returned, for every member m
\* the settlements with from = m total m's net debit and those with to = m
\* total m's net credit.
C1_SettlementsDischargeNet ==
  pc = "done" =>
    \A m \in Members :
      /\ SentBy(m, settlements) = NetDebit(m, balances)
      /\ ReceivedBy(m, settlements) = NetCredit(m, balances)

\* C2: recording every settlement as a payment and recomputing
\* calculateBalances yields no Balance entry.
C2_RoundTripNoBalance ==
  pc = "done" =>
    calculateBalances(expenses, payments \o AsPayments(settlements)) = <<>>

\* C3: the output of calculateBalances holds at most one Balance per unordered
\* pair of members, and that one runs from the pair's net debtor to its net
\* creditor.
C3_OneBalancePerPair ==
  pc = "calculated" =>
    /\ \A i, j \in DOMAIN balances :
         {balances[i].from, balances[i].to} = {balances[j].from, balances[j].to}
           => i = j
    /\ \A i \in DOMAIN balances :
         balances[i].from # balances[i].to
           => Debt(balances[i].from, balances[i].to, expenses, payments) > 0

\* C3 witness: records in both directions between two members, one Balance
C3_Witness ==
  /\ pc = "calculated"
  /\ \E x, y \in Members :
       /\ x # y
       /\ OwesRecord(x, y)
       /\ OwesRecord(y, x)
       /\ Between(x, y, balances) # {}

\* C4: calculateBalances returns the same set of Balance entries for every
\* reordering of the expense list and of the payment list.
C4_OrderIndependent ==
  pc = "calculated" =>
    \A es \in Reorderings(expenses) : \A ps \in Reorderings(payments) :
      /\ AsSet(calculateBalances(es, ps)) = AsSet(balances)
      /\ Len(calculateBalances(es, ps)) = Len(balances)

\* C5: every emitted amount is a whole number of cents and
\* strictly greater than 0.01, and a pair whose net is within 0.01 of zero
\* (0.01 included) has no entry.
C5_AmountAboveEpsilon ==
  pc = "calculated" =>
    /\ \A i \in DOMAIN balances :
         IsCents(balances[i].amount) /\ DLess(EPS, balances[i].amount)
    /\ \A x, y \in Members :
         (x # y /\ Abs(Debt(x, y, expenses, payments)) <= Cent)
           => Between(x, y, balances) = {}

\* C6: a pair total of magnitude 0.009 produces no Balance and one
\* of 0.011 produces a Balance; a member whose net position has magnitude 0.009
\* is neither debtor nor creditor, one with 0.011 is.
C6_EpsilonBoundary ==
  /\ pc = "calculated" =>
       \A x, y \in Members :
         /\ (x # y /\ Debt(x, y, expenses, payments) = 9 * Mill)
              => Between(x, y, balances) = {}
         /\ (x # y /\ Debt(x, y, expenses, payments) = 11 * Mill)
              => Between(x, y, balances) # {}
  /\ pc \in {"loop", "done"} =>
       \A m \in Members :
         /\ NetDebit(m, balances) + NetCredit(m, balances) = 9 * Mill
              => m \notin Ids(debtors) \cup Ids(creditors)
         /\ NetDebit(m, balances) = 11 * Mill
              => m \in Ids(debtors) /\ m \notin Ids(creditors)
         /\ NetCredit(m, balances) = 11 * Mill
              => m \in Ids(creditors) /\ m \notin Ids(debtors)

\* C7: for a single expense of amount a paid by P and shared among
\* the distinct members S, with no payments, every m in S other than P owes P
\* a / |S| rounded to 2 decimals (no entry counting as 0.00), each in one
\* Balance, and there is no other entry.
C7_SingleExpenseShares ==
  (pc = "calculated" /\ Len(expenses) = 1 /\ payments = <<>>) =>
    LET e == expenses[1]
        S == AsSet(e.sharedWith)
        P == e.paidBy
        share == NearestCent(Exact(e.amount) \div Cardinality(S))
    IN /\ \A m \in S \ {P} :
            /\ AmountFromTo(m, P, balances) = share
            /\ Cardinality(Between(m, P, balances)) <= 1
       /\ \A i \in DOMAIN balances :
            balances[i].to = P /\ balances[i].from \in S \ {P}

\* the Balance list before the last payment of the list was added
BeforeLastPayment ==
  calculateBalances(expenses, SubSeq(payments, 1, Len(payments) - 1))

\* the entries of list that are not between x and y
Outside(x, y, list) ==
  {list[i] : i \in {j \in DOMAIN list : {list[j].from, list[j].to} # {x, y}}}

\* adding the payment pay to an input whose output was before gives after:
\* the payer's debt d to the payee goes down to d - p, with no entry when
\* p = d, and every other pair is as it was
ReducesOnlyThatDebt(pay, before, after) ==
  LET d == AmountFromTo(pay.from, pay.to, before)
  IN /\ AmountFromTo(pay.from, pay.to, after) = d - Exact(pay.amount)
     /\ AmountFromTo(pay.to, pay.from, after) = 0
     /\ Cardinality(Between(pay.from, pay.to, after))
          = (IF d = Exact(pay.amount) THEN 0 ELSE 1)
     /\ Outside(pay.from, pay.to, after) = Outside(pay.from, pay.to, before)

\* C8: a payment from X to Y of amount p added to an input in which
\* X owes Y d >= p changes only the X-Y pair: X then owes Y d - p, with no entry
\* when p = d.
C8_PaymentReducesDebt ==
  (pc = "calculated" /\ payments # <<>>) =>
    LET pay == payments[Len(payments)]
    IN AmountFromTo(pay.from, pay.to, BeforeLastPayment) >= Exact(pay.amount)
         => ReducesOnlyThatDebt(pay, BeforeLastPayment, balances)

\* scenario 3: A paid 60 shared by A, B, C; B paid 30 shared by B, C
Scenario3 ==
  <<[amount |-> Units(60), paidBy |-> A, sharedWith |-> <<A, B, C>>],
    [amount |-> Units(30), paidBy |-> B, sharedWith |-> <<B, C>>]>>

\* C9 (as claimed): on scenario 3 calculateBalances returns exactly C owes A
\* 20.00 and C owes B 15.00, and minimizeTransactions returns exactly C->A 20.00
\* and C->B 15.00.
C9_Scenario3AsClaimed ==
  (pc = "done" /\ expenses = Scenario3 /\ payments = <<>>) =>
    /\ Len(balances) = 2
    /\ AsSet(balances) = {[from |-> C, to |-> A, amount |-> Units(20)],
                          [from |-> C, to |-> B, amount |-> Units(15)]}
    /\ Len(settlements) = 2
    /\ AsSet(settlements) = {[from |-> C, to |-> A, amount |-> Units(20)],
                             [from |-> C, to |-> B, amount |-> Units(15)]}

\* C9 (amended): on scenario 3 calculateBalances returns exactly B owes A 20.00,
\* C owes A 20.00 and C owes B 15.00, and minimizeTransactions returns exactly
\* C->A 35.00 and B->A 5.00.
C9_Scenario3 ==
  (pc = "done" /\ expenses = Scenario3 /\ payments = <<>>) =>
    /\ Len(balances) = 3
    /\ AsSet(balances) = {[from |-> B, to |-> A, amount |-> Units(20)],
                          [from |-> C, to |-> A, amount |-> Units(20)],
                          [from |-> C, to |-> B, amount |-> Units(15)]}
    /\ Len(settlements) = 2
    /\ AsSet(settlements) = {[from |-> C, to |-> A, amount |-> Units(35)],
                             [from |-> B, to |-> A, amount |-> Units(5)]}

\* C9 witness: both functions have run on scenario 3
C9_Witness == pc = "done" /\ expenses = Scenario3 /\ payments = <<>>

\* C10: no Settlement built by minimizeTransactions has from = to.
C10_NoSelfSettlement ==
  \A i \in DOMAIN settlements : settlements[i].from # settlements[i].to

\* C10 witness: settlements returned for a list with an entry whose from = to
\* and two entries touching the same member
C10_Witness ==
  /\ pc = "done"
  /\ settlements # <<>>
  /\ \E i \in DOMAIN balances : balances[i].from = balances[i].to
  /\ \E i, j \in DOMAIN balances :
       i # j /\ {balances[i].from, balances[i].to} \cap {balances[j].from, balances[j].to} # {}

\* the members whose net position over the Balance list is not zero
NonzeroNet(list) == {m \in Members : SentBy(m, list) # ReceivedBy(m, list)}

Max0(n) == IF n < 0 THEN 0 ELSE n

\* C11: minimizeTransactions returns at most max(0, k - 1) settlements, k the
\* number of distinct members whose net position is nonzero.
C11_MinimalityBound ==
  Len(settlements) <= Max0(Cardinality(NonzeroNet(balances)) - 1)

\* C11 witness: three members with nonzero net and two settlements returned
C11_Witness ==
  /\ pc = "done"
  /\ Cardinality(NonzeroNet(balances)) = 3
  /\ Len(settlements) = 2

\* an iteration of the while loop has run: it pushed a settlement
Iterated == Len(settlements') = Len(settlements) + 1

\* C12 (as claimed): the loop terminates, every iteration advances the debtor
\* or the creditor pointer, and the loop runs at most
\* |debtors| + |creditors| - 1 times.
C12_LoopTerminatesAsClaimed ==
  /\ <>(pc = "done")
  /\ [][Iterated => (debtorIndex' > debtorIndex \/ creditorIndex' > creditorIndex)]_vars
  /\ [](pc \in {"loop", "done"}
          => Len(settlements) <= Len(debtors) + Len(creditors) - 1)

\* C12 (amended): the loop terminates, every iteration advances the debtor or
\* the creditor pointer, and the loop runs at most
\* max(0, |debtors| + |creditors| - 1) times.
C12_LoopTerminates ==
  /\ <>(pc = "done")
  /\ [][Iterated => (debtorIndex' > debtorIndex \/ creditorIndex' > creditorIndex)]_vars
  /\ [](pc \in {"loop", "done"}
          => Len(settlements) <= Max0(Len(debtors) + Len(creditors) - 1))

\* C12 witness: the loop has exited after |debtors| + |creditors| - 1 > 1
\* iterations
C12_Witness ==
  /\ pc = "done"
  /\ Len(settlements) > 1
  /\ Len(settlements) = Len(debtors) + Len(creditors) - 1

\* the total of the amounts of a debtors or creditors array
TotalOf(arr) == SumSeq([i \in DOMAIN arr |-> Exact(arr[i].amount)])

\* the while loop has been reached and has not yet run an iteration
Partitioned == pc = "loop" /\ settlements = <<>>

\* C13: once the members are partitioned into debtors and creditors, the total
\* of the debtor magnitudes equals the total of the creditor magnitudes.
C13_PartitionTotalsEqual == Partitioned => TotalOf(debtors) = TotalOf(creditors)

\* x + y as a real number, not rounded
ExactAdd(x, y) ==
  IF x.neg = y.neg THEN Dbl(x.neg, BAdd(x.mag, y.mag))
  ELSE IF BCmp(x.mag, y.mag) >= 0 THEN Dbl(x.neg, BSub(x.mag, y.mag))
  ELSE Dbl(y.neg, BSub(y.mag, x.mag))

RECURSIVE NetTotal(_, _)
\* the sum, as a real number, of the net positions from entry i on
NetTotal(netAmounts, i) ==
  IF i > Len(netAmounts) THEN Zero
  ELSE ExactAdd(netAmounts[i].val, NetTotal(netAmounts, i + 1))

\* the net positions read as decimals
NetDecimals(netAmounts) == [i \in DOMAIN netAmounts |-> Exact(netAmounts[i].val)]

\* minimizeTransactions has computed the net positions of balances
NetsComputed == pc \in {"loop", "done"}

\* C14 (as claimed): the per-member net positions computed by
\* minimizeTransactions sum to zero over all members.
C14_NetsSumToZeroAsClaimed ==
  NetsComputed => NetTotal(NetAmounts(balances), 1) = Zero

\* C14 (amended): the per-member net positions computed by minimizeTransactions
\* sum to less than 0.01 in magnitude, and to exactly zero when each is read as
\* the decimal it stands for, so total debits equal total credits.
C14_NetsSumToZero ==
  NetsComputed =>
    /\ DLess(DAbs(NetTotal(NetAmounts(balances), 1)), EPS)
    /\ SumSeq(NetDecimals(NetAmounts(balances))) = 0

\* C14 witness: net positions of three members that carry a rounding error
C14_Witness ==
  /\ NetsComputed
  /\ Len(NetAmounts(balances)) = 3
  /\ NetTotal(NetAmounts(balances), 1) # Zero
  /\ \A i \in 1..3 : NetAmounts(balances)[i].val # Zero

\* C15: calculateBalances with no expenses and no payments returns the empty
\* list, and minimizeTransactions of the empty Balance list returns the empty
\* Settlement list.
C15_EmptyInEmptyOut ==
  /\ (pc # "input" /\ expenses = <<>> /\ payments = <<>>) => balances = <<>>
  /\ (pc = "done" /\ balances = <<>>) => settlements = <<>>

\* C15 witness: both functions have returned on empty input
C15_Witness ==
  /\ pc = "done"
  /\ expenses = <<>>
  /\ payments = <<>>
  /\ balances = <<>>
  /\ settlements = <<>>

\* C16: no step of calculateBalances or minimizeTransactions changes the
\* expense list, the payment list or the Balance list it was given, so a second
\* call on the same lists, made at any point during or after the first, returns
\* what the first returns.
C16_ArgumentsUnchanged ==
  /\ [][/\ expenses' = expenses
        /\ payments' = payments
        /\ pc # "input" => balances' = balances]_vars
  /\ [](pc # "input" => calculateBalances(expenses, payments) = balances)
  /\ [](pc \in {"loop", "done"}
          => minimizeTransactions(balances) = RunLoop(loopState).settlements)

\* C16 witness: both functions have returned, the loop having written to the
\* entries of its debtors array
C16_Witness ==
  /\ pc = "done"
  /\ expenses # <<>>
  /\ payments # <<>>
  /\ settlements # <<>>
  /\ debtors[1].amount = Zero

\* the payments of the list that are not from a member to themselves
NotSelf(ps) == SelectSeq(ps, LAMBDA p : p.from # p.to)

\* C17: the output of calculateBalances holds no Balance with from = to, and no
\* Balance that would be absent without the payments whose from equals to.
C17_SelfPaymentHarmless ==
  pc = "calculated" =>
    /\ \A i \in DOMAIN balances : balances[i].from # balances[i].to
    /\ AsSet(balances) \subseteq AsSet(calculateBalances(expenses, NotSelf(payments)))

\* the expenses of the list that are shared with somebody
Shared(es) == SelectSeq(es, LAMBDA e : e.sharedWith # <<>>)

\* C18: calculateBalances returns, for a list with expenses whose sharedWith is
\* empty, what it returns for the list without them.
C18_EmptyShareIgnored ==
  pc = "calculated" => balances = calculateBalances(Shared(expenses), payments)

\* C18 witness: an expense shared with nobody among records that leave a Balance
C18_Witness ==
  /\ pc = "calculated"
  /\ \E i \in DOMAIN expenses : expenses[i].sharedWith = <<>>
  /\ balances # <<>>

\* Math.round(100 * d) / 100 of an exact signed amount d: the nearest cent, a
\* half cent toward +Infinity
RoundedExactly(d) == ((2 * d + Cent) \div (2 * Cent)) * Cent

\* what the first member is said to owe the second by the Balance list, signed
EmittedNet(x, y, list) == AmountFromTo(x, y, list) - AmountFromTo(y, x, list)

\* C19: for every pair the amount emitted by calculateBalances is the exact
\* signed sum of the shares and payments between the two members, rounded to 2
\* decimals once (the lower member owing the higher counted positive).
C19_RoundedOnceFromExactSum ==
  pc = "calculated" =>
    \A x, y \in Members :
      StrLess(x, y) =>
        EmittedNet(x, y, balances) = RoundedExactly(Debt(x, y, expenses, payments))

Absent(data) ==
  \/ data.groupId = <<>> \/ data.from = <<>> \/ data.to = <<>>
  \/ ~data.amountGiven \/ data.createdBy = <<>>

\* the argument is one createPayment is to reject
Invalid(data) ==
  Absent(data) \/ data.from = data.to \/ ~DLess(Zero, data.amount)

\* C21: when from equals to, the amount is <= 0 or a required field is
\* missing, createPayment throws an error and has added neither a payment
\* document nor an activity; no payment document it stored has from = to or
\* an amount that is not positive.
C21_InvalidPaymentRejected ==
  /\ Invalid(call.data) =>
        /\ pc \in {"validate", "thrown"}
        /\ pc = "thrown" => call.error # NoError
        /\ paymentDocs = <<>>
        /\ activityDocs = <<>>
  /\ \A i \in 1..Len(paymentDocs) :
        /\ paymentDocs[i].from # paymentDocs[i].to
        /\ DLess(Zero, paymentDocs[i].amount)

\* a payment from A to A, complete otherwise, has been rejected
C21_Witness ==
  /\ pc = "thrown"
  /\ ~Absent(call.data)
  /\ call.data.from = call.data.to
  /\ DLess(Zero, call.data.amount)
  /\ call.error = ToThemselves
  /\ paymentDocs = <<>>

MinOf(a, b) == IF a < b THEN a ELSE b

C23_PayerAlwaysShares ==
  \A i \in DOMAIN store.expenses :
     /\ store.expenses[i].sharedWith # <<>>
     /\ \E k \in DOMAIN store.expenses[i].sharedWith :
          store.expenses[i].sharedWith[k] = store.expenses[i].paidBy

\* only B was ticked and A chosen as payer: the handler is about to add A, and
\* a stored expense was already saved with a payer appended last
C23_Witness ==
  /\ form.selectedMembers = <<B>>
  /\ form.selectedPaidBy = A
  /\ form.editingExpense # 0
  /\ \E i \in DOMAIN store.expenses :
       /\ store.expenses[i].sharedWith = <<A, B>>
       /\ store.expenses[i].paidBy = B

\* the identifier m with x and y exchanged
SwapId(x, y, m) == IF m = x THEN y ELSE IF m = y THEN x ELSE m

SwapExpenses(x, y, es) ==
  [i \in DOMAIN es |->
     [amount |-> es[i].amount, paidBy |-> SwapId(x, y, es[i].paidBy),
      sharedWith |-> [k \in DOMAIN es[i].sharedWith |->
                        SwapId(x, y, es[i].sharedWith[k])]]]

\* from and to exchanged in a list of payments or of balances
SwapFromTo(x, y, list) ==
  [i \in DOMAIN list |->
     [from |-> SwapId(x, y, list[i].from), to |-> SwapId(x, y, list[i].to),
      amount |-> list[i].amount]]

\* C24: with the identifiers of two members exchanged in every expense and
\* payment, calculateBalances returns the same balances with the two
\* identifiers exchanged: the same amounts, the directions swapped.
C24_SwapSymmetric ==
  pc = "calculated" =>
    \A x, y \in Members :
       AsSet(calculateBalances(SwapExpenses(x, y, expenses),
                               SwapFromTo(x, y, payments)))
         = AsSet(SwapFromTo(x, y, balances))

\* the member identifiers that occur in the input
InputIds ==
  UNION {{expenses[i].paidBy} \cup AsSet(expenses[i].sharedWith) : i \in DOMAIN expenses}
    \cup UNION {{payments[i].from, payments[i].to} : i \in DOMAIN payments}

\* the unordered pairs of members between which a record runs
InputPairs ==
  {{expenses[i].paidBy, expenses[i].sharedWith[2]} : i \in DOMAIN expenses}
    \cup {{payments[i].from, payments[i].to} : i \in DOMAIN payments}

KeyOfPair(pair) ==
  LET x == CHOOSE m \in pair : TRUE
      y == CHOOSE m \in pair : m # x
  IN PairKey(x, y)

\* C25: whatever the identifiers, also with '-' in them, every Balance
\* returned has as from and to identifiers that occur in the input, and two
\* different pairs of members never accumulate under the same key.
C25_KeyDecodesToMembers ==
  pc = "calculated" =>
    /\ \A i \in DOMAIN balances :
          balances[i].from \in InputIds /\ balances[i].to \in InputIds
    /\ \A p, q \in InputPairs : p # q => KeyOfPair(p) # KeyOfPair(q)

\* no member pays more than their net debit or receives more than their net
\* credit, and nobody is on the wrong side of a settlement
NoOverSettlement ==
  \A m \in Members :
     /\ SentBy(m, settlements) <= NetDebit(m, balances)
     /\ ReceivedBy(m, settlements) <= NetCredit(m, balances)
     /\ NetCredit(m, balances) > 0 => SentBy(m, settlements) = 0
     /\ NetDebit(m, balances) > 0 => ReceivedBy(m, settlements) = 0

\* C26 (as claimed): for any input and every member m, the settlements from m
\* total at most m's net debit and those to m at most m's net credit; a member
\* with net credit is never from and a member with net debit never to.
C26_NeverOverSettlesAsClaimed == NoOverSettlement

\* every amount of the list is a whole number of cents
WholeCents(list) == \A i \in DOMAIN list : IsCents(list[i].amount)

\* C26 (amended): for an input Balance list of whole-cent amounts and every
\* member m, the settlements from m total at most m's net debit and those to m
\* at most m's net credit; for any input, a member with net credit is never
\* from and a member with net debit never to.
C26_NeverOverSettles ==
  /\ WholeCents(balances) => NoOverSettlement
  /\ \A m \in Members :
        /\ NetCredit(m, balances) > 0 => SentBy(m, settlements) = 0
        /\ NetDebit(m, balances) > 0 => ReceivedBy(m, settlements) = 0

\* a debtor in whole cents has paid two creditors, to the full net debit
C26_Witness ==
  /\ pc = "done"
  /\ WholeCents(balances)
  /\ Len(settlements) = 2
  /\ settlements[1].from = settlements[2].from
  /\ SentBy(settlements[1].from, settlements) = NetDebit(settlements[1].from, balances)

\* C27: every settlement minimizeTransactions returns has an amount of at
\* least 0.01, whatever positive amounts the input balances have; no settlement
\* of 0.00 is emitted.
C27_SettlementAtLeastOneCent ==
  \A i \in DOMAIN settlements :
     /\ ~DLess(settlements[i].amount, EPS)
     /\ Exact(settlements[i].amount) >= Cent

\* a net position of 0.011, just beyond the threshold, was settled with 0.01
C27_Witness ==
  /\ pc = "done"
  /\ Len(settlements) = 1
  /\ settlements[1].amount = Cents(1)
  /\ NetDebit(settlements[1].from, balances) = 11 * Mill

\* C28: a payment from X to Y of amount p, added to an input by which X owes
\* Y less than p (nothing included; a debt of Y to X counted negative), makes
\* calculateBalances report that Y owes X the excess, and no longer that X
\* owes Y.
C28_OverpaymentReverses ==
  (pc = "calculated" /\ payments # <<>>) =>
    LET pay == payments[Len(payments)]
        d == EmittedNet(pay.from, pay.to, BeforeLastPayment)
    IN Exact(pay.amount) > d =>
         /\ AmountFromTo(pay.to, pay.from, balances) = Exact(pay.amount) - d
         /\ AmountFromTo(pay.from, pay.to, balances) = 0

\* C29: a payment document is stored only when the group exists and createdBy
\* is one of its members, on every path through createPayment, the one on
\* which the group lookup fails with an error included.
C29_OnlyMembersStorePayments ==
  \A i \in DOMAIN paymentDocs :
     /\ groupDoc.exists
     /\ \E k \in DOMAIN groupDoc.members :
          groupDoc.members[k] = paymentDocs[i].createdBy

\* C30: once the joins of two different users to the same group have both
\* completed, both users are in the members list of the group; neither join is
\* lost to the write of the other.
C30_NoJoinLost ==
  \A u, v \in Joiners :
     (u # v /\ joins[u].at = "done" /\ joins[v].at = "done") =>
        /\ \E k \in DOMAIN groupDoc.members : groupDoc.members[k] = u
        /\ \E k \in DOMAIN groupDoc.members : groupDoc.members[k] = v

====
